---- MODULE Spec2Model ----
(***************************************************************************)
(* pydbm.loss.mean_squared_error.MeanSquaredError: the mean squared error  *)
(* with gradient clipping.  The loss object holds a clip threshold and an  *)
(* optional penalty array; compute_loss, compute_delta and reverse_delta   *)
(* are numpy expressions over floating-point arrays.                       *)
(*                                                                         *)
(* Numbers are binary floating-point values with a MantBits-bit            *)
(* significand, every arithmetic step rounded to nearest, ties to even,    *)
(* as IEEE 754 does for numpy's float64 (53 bits).  The exponent is        *)
(* unbounded: overflow and underflow are outside the model.                *)
(***************************************************************************)
EXTENDS Integers, Sequences, FiniteSets

\* Bits of the significand of the modelled floating-point format.
MantBits == 6
\* Largest batch size (labeled_arr.shape[0]) of the arrays the caller passes.
MaxBatch == 2

(***************************************************************************)
(* Floating-point values: <<m, e>> is m * 2^e, with m odd, or <<0, 0>> for *)
(* zero; NaN is the one value that is neither.                             *)
(***************************************************************************)
NaN == <<0, 1>>
Zero == <<0, 0>>

IsNaN(x) == x = NaN

Pow2(n) == 2 ^ n

Abs(n) == IF n < 0 THEN -n ELSE n

Sign(n) == IF n < 0 THEN -1 ELSE IF n > 0 THEN 1 ELSE 0

Min(a, b) == IF a < b THEN a ELSE b

RECURSIVE Canon(_, _)
Canon(m, e) ==
    IF m = 0 THEN Zero
    ELSE IF m % 2 = 0 THEN Canon(m \div 2, e + 1)
    ELSE <<m, e>>

\* The number of low bits of a > 0 to drop so that at most MantBits remain.
RECURSIVE DropBits(_)
DropBits(a) == IF a < Pow2(MantBits) THEN 0 ELSE 1 + DropBits(a \div 2)

\* m * 2^e rounded to MantBits bits, to nearest, ties to even.
RoundME(m, e) ==
    LET a == Abs(m)
        k == DropBits(a)
        q == a \div Pow2(k)
        r == a % Pow2(k)
        half == IF k = 0 THEN 0 ELSE Pow2(k - 1)
        up == k > 0 /\ (r > half \/ (r = half /\ q % 2 = 1))
    IN  Canon(Sign(m) * (IF up THEN q + 1 ELSE q), e + k)

FromInt(n) == RoundME(n, 0)

FNeg(x) == IF IsNaN(x) THEN NaN ELSE <<-x[1], x[2]>>

FAdd(x, y) ==
    IF IsNaN(x) \/ IsNaN(y) THEN NaN
    ELSE LET e == Min(x[2], y[2])
         IN  RoundME(x[1] * Pow2(x[2] - e) + y[1] * Pow2(y[2] - e), e)

FSub(x, y) == FAdd(x, FNeg(y))

FMul(x, y) ==
    IF IsNaN(x) \/ IsNaN(y) THEN NaN
    ELSE RoundME(x[1] * y[1], x[2] + y[2])

\* x / y.  A zero divisor gives NaN: the only division by zero the methods
\* make is by the norm of an all-zero array, and then the dividend is zero.
FDiv(x, y) ==
    IF IsNaN(x) \/ IsNaN(y) \/ y[1] = 0 THEN NaN
    ELSE LET s == 2 * MantBits + 2
             num == Abs(x[1]) * Pow2(s)
             den == Abs(y[1])
             q == num \div den
             sticky == IF num % den = 0 THEN 0 ELSE 1
         IN  RoundME(Sign(x[1]) * Sign(y[1]) * (2 * q + sticky),
                     x[2] - y[2] - s - 1)

\* The largest q in lo..hi with q * q <= n (lo * lo <= n is given).
RECURSIVE SqrtSearch(_, _, _)
SqrtSearch(n, lo, hi) ==
    IF lo = hi THEN lo
    ELSE LET mid == (lo + hi + 1) \div 2
         IN  IF mid * mid <= n THEN SqrtSearch(n, mid, hi)
             ELSE SqrtSearch(n, lo, mid - 1)

\* The correctly rounded square root of x >= 0.
FSqrt(x) ==
    IF IsNaN(x) \/ x[1] < 0 THEN NaN
    ELSE IF x[1] = 0 THEN Zero
    ELSE LET t0 == 2 * MantBits + 2
             t == IF (x[2] - t0) % 2 = 0 THEN t0 ELSE t0 + 1
             n == x[1] * Pow2(t)
             q == SqrtSearch(n, 0, Pow2(((3 * MantBits) \div 2) + 2))
             sticky == IF q * q = n THEN 0 ELSE 1
         IN  RoundME(2 * q + sticky, ((x[2] - t) \div 2) - 1)

\* x > y as numpy compares: false when either side is NaN.
FGt(x, y) ==
    /\ ~IsNaN(x)
    /\ ~IsNaN(y)
    /\ LET e == Min(x[2], y[2])
       IN  x[1] * Pow2(x[2] - e) > y[1] * Pow2(y[2] - e)

\* x >= y as numpy compares.
FGe(x, y) == FGt(x, y) \/ (~IsNaN(x) /\ ~IsNaN(y) /\ x = y)

(***************************************************************************)
(* Arrays: a two-dimensional array of shape (B, K) is a sequence of B rows *)
(* of K values.  None is the empty sequence.                               *)
(***************************************************************************)
None == <<>>

Rows(a) == Len(a)

Cols(a) == Len(a[1])

\* a + b, a - b: element-wise, on arrays of one shape.
ArrAdd(a, b) ==
    [i \in 1..Rows(a) |-> [j \in 1..Cols(a) |-> FAdd(a[i][j], b[i][j])]]

ArrSub(a, b) ==
    [i \in 1..Rows(a) |-> [j \in 1..Cols(a) |-> FSub(a[i][j], b[i][j])]]

\* a * k, a / k: every element with the scalar k.
ArrMulS(a, k) == [i \in 1..Rows(a) |-> [j \in 1..Cols(a) |-> FMul(a[i][j], k)]]

ArrDivS(a, k) == [i \in 1..Rows(a) |-> [j \in 1..Cols(a) |-> FDiv(a[i][j], k)]]

\* np.square(a)
ArrSquare(a) ==
    [i \in 1..Rows(a) |-> [j \in 1..Cols(a) |-> FMul(a[i][j], a[i][j])]]

\* The elements in row-major order.
Flatten(a) ==
    [n \in 1..(Rows(a) * Cols(a)) |->
        a[((n - 1) \div Cols(a)) + 1][((n - 1) % Cols(a)) + 1]]

\* The sum of a non-empty sequence, accumulated left to right.
RECURSIVE SumTo(_, _)
SumTo(s, n) == IF n = 1 THEN s[1] ELSE FAdd(SumTo(s, n - 1), s[n])

SumSeq(s) == SumTo(s, Len(s))

\* np.linalg.norm(a): the square root of the sum of the squares.
Norm(a) ==
    LET f == Flatten(a)
    IN  FSqrt(SumSeq([n \in 1..Len(f) |-> FMul(f[n], f[n])]))

\* a.mean(axis): the sum over the axis divided by the number of elements
\* summed; the result is a sequence, of one value when axis is None.
AxisNone == 2

MeanAxis(a, axis) ==
    IF axis = AxisNone
    THEN <<FDiv(SumSeq(Flatten(a)), FromInt(Rows(a) * Cols(a)))>>
    ELSE IF axis = 0
    THEN [j \in 1..Cols(a) |->
            FDiv(SumSeq([i \in 1..Rows(a) |-> a[i][j]]), FromInt(Rows(a)))]
    ELSE [i \in 1..Rows(a) |-> FDiv(SumSeq(a[i]), FromInt(Cols(a)))]

(***************************************************************************)
(* The three methods.  self is the loss object on entry, a record of its   *)
(* two attributes.  Each method yields its locals on return, its return    *)
(* value ret, and the object and the argument arrays as the call leaves    *)
(* them.                                                                   *)
(***************************************************************************)

\* LossClip with the test written v >= threshold.
LossClip_ge(diff_arr, threshold) ==
    LET v == Norm(diff_arr)
    IN  IF FGe(v, threshold)
        THEN ArrDivS(ArrMulS(diff_arr, threshold), v)
        ELSE diff_arr

\* LossClip with the division by v forgotten.
LossClip_mul(diff_arr, threshold) ==
    LET v == Norm(diff_arr)
    IN  IF FGt(v, threshold)
        THEN ArrMulS(diff_arr, threshold)
        ELSE diff_arr

\* LossClip as a clamp of each element to [-threshold, threshold].
LossClip_clamp(diff_arr, threshold) ==
    [i \in 1..Rows(diff_arr) |-> [j \in 1..Cols(diff_arr) |->
        IF FGt(diff_arr[i][j], threshold) THEN threshold
        ELSE IF FGt(FNeg(threshold), diff_arr[i][j]) THEN FNeg(threshold)
        ELSE diff_arr[i][j]]]

\* Lines 41-43: v = norm(diff_arr); if v > threshold: diff_arr * threshold / v
LossClip(diff_arr, threshold) ==
    LET v == Norm(diff_arr)
    IN  IF FGt(v, threshold)
        THEN ArrDivS(ArrMulS(diff_arr, threshold), v)
        ELSE diff_arr

\* LossPenalty with -= for +=.
LossPenalty_sub(diff_arr, penalty) ==
    IF penalty # None THEN ArrSub(diff_arr, penalty) ELSE diff_arr

\* Lines 45-46: if self.penalty_arr is not None: diff_arr += self.penalty_arr
LossPenalty(diff_arr, penalty) ==
    IF penalty # None THEN ArrAdd(diff_arr, penalty) ELSE diff_arr

compute_loss(self, pred_arr, labeled_arr, axis) ==
    LET batch_size == FromInt(Rows(labeled_arr))
        raw == ArrDivS(ArrSub(labeled_arr, pred_arr), batch_size)
        clip == LossClip(raw, self.threshold)
        diff_arr == LossPenalty(clip, self.penalty)
    IN  [raw |-> raw, v |-> Norm(raw), clip |-> clip, out |-> diff_arr,
         ret |-> MeanAxis(ArrSquare(diff_arr), axis),
         self |-> self, pred_arr |-> pred_arr, labeled_arr |-> labeled_arr,
         delta_arr |-> None]

\* DeltaClip with the test written v >= threshold.
DeltaClip_ge(delta_arr, threshold) ==
    LET v == Norm(delta_arr)
    IN  IF FGe(v, threshold)
        THEN ArrDivS(ArrMulS(delta_arr, threshold), v)
        ELSE delta_arr

\* DeltaClip as a clamp of each element to [-threshold, threshold].
DeltaClip_clamp(delta_arr, threshold) ==
    [i \in 1..Rows(delta_arr) |-> [j \in 1..Cols(delta_arr) |->
        IF FGt(delta_arr[i][j], threshold) THEN threshold
        ELSE IF FGt(FNeg(threshold), delta_arr[i][j]) THEN FNeg(threshold)
        ELSE delta_arr[i][j]]]

\* DeltaClip with the rescaling left out.
DeltaClip_none(delta_arr, threshold) == delta_arr

\* Lines 64-66: v = norm(delta_arr); if v > threshold: delta_arr * threshold / v
DeltaClip(delta_arr, threshold) ==
    LET v == Norm(delta_arr)
    IN  IF FGt(v, threshold)
        THEN ArrDivS(ArrMulS(delta_arr, threshold), v)
        ELSE delta_arr

\* Lines 68-69: if self.penalty_arr is not None: delta_arr += self.penalty_arr
DeltaPenalty(delta_arr, penalty) ==
    IF penalty # None THEN ArrAdd(delta_arr, penalty) ELSE delta_arr

\* compute_delta with the penalty added before the clipping step.
compute_delta_penalty_first(self, pred_arr, labeled_arr, delta_output) ==
    LET batch_size == FromInt(Rows(labeled_arr))
        raw == ArrMulS(ArrDivS(ArrSub(pred_arr, labeled_arr), batch_size),
                       FromInt(delta_output))
        withpen == DeltaPenalty(raw, self.penalty)
        delta_arr == DeltaClip(withpen, self.threshold)
    IN  [raw |-> raw, v |-> Norm(raw), clip |-> DeltaClip(raw, self.threshold),
         out |-> delta_arr, ret |-> delta_arr,
         self |-> self, pred_arr |-> pred_arr, labeled_arr |-> labeled_arr,
         delta_arr |-> None]

compute_delta(self, pred_arr, labeled_arr, delta_output) ==
    LET batch_size == FromInt(Rows(labeled_arr))
        raw == ArrMulS(ArrDivS(ArrSub(pred_arr, labeled_arr), batch_size),
                       FromInt(delta_output))
        clip == DeltaClip(raw, self.threshold)
        delta_arr == DeltaPenalty(clip, self.penalty)
    IN  [raw |-> raw, v |-> Norm(raw), clip |-> clip, out |-> delta_arr,
         ret |-> delta_arr,
         self |-> self, pred_arr |-> pred_arr, labeled_arr |-> labeled_arr,
         delta_arr |-> None]

\* reverse_delta updating the caller's array in place (*= and +=).
reverse_delta_inplace(self, delta_arr, labeled_arr, delta_output) ==
    LET batch_size == Rows(labeled_arr)
        scale == FromInt(batch_size * delta_output)
        out == ArrAdd(ArrMulS(delta_arr, scale), labeled_arr)
    IN  [raw |-> None, v |-> Zero, clip |-> None, out |-> out,
         ret |-> out,
         self |-> self, pred_arr |-> None, labeled_arr |-> labeled_arr,
         delta_arr |-> out]

\* reverse_delta multiplying by batch_size alone.
reverse_delta_noscale(self, delta_arr, labeled_arr, delta_output) ==
    LET batch_size == Rows(labeled_arr)
        scale == FromInt(batch_size)
        out == ArrAdd(ArrMulS(delta_arr, scale), labeled_arr)
    IN  [raw |-> None, v |-> Zero, clip |-> None, out |-> out,
         ret |-> out,
         self |-> self, pred_arr |-> None, labeled_arr |-> labeled_arr,
         delta_arr |-> delta_arr]

reverse_delta(self, delta_arr, labeled_arr, delta_output) ==
    LET batch_size == Rows(labeled_arr)
        scale == FromInt(batch_size * delta_output)
        out == ArrAdd(ArrMulS(delta_arr, scale), labeled_arr)
    IN  [raw |-> None, v |-> Zero, clip |-> None, out |-> out,
         ret |-> out,
         self |-> self, pred_arr |-> None, labeled_arr |-> labeled_arr,
         delta_arr |-> delta_arr]

(***************************************************************************)
(* The inputs: the thresholds the object is constructed with, the scalar   *)
(* arguments, and the arrays the caller holds.  Arrays of one shape are    *)
(* filled, in row-major order, by repeating a short pattern of values.     *)
(***************************************************************************)
Quarter == <<1, -2>>

Thresholds == {FromInt(-1), Zero, FromInt(4), FromInt(36)}

DeltaOutputs == {-1, 1, 2}

Axes == {AxisNone, 0, 1}

ColCounts == {1, 2}

Shapes == (1..MaxBatch) \X ColCounts

PredVals == {FromInt(-3), Quarter, FromInt(33)}

LabeledVals == {Quarter, FromInt(33)}

Fill(shape, pat) ==
    [i \in 1..shape[1] |->
        [j \in 1..shape[2] |-> pat[(((i - 1) * shape[2] + (j - 1)) % Len(pat)) + 1]]]

PredArrays(shape) == {Fill(shape, <<a, b>>) : a \in PredVals, b \in PredVals}

LabeledArrays(shape) == {Fill(shape, <<c>>) : c \in LabeledVals}

PenaltyArrays(shape) == {None, Fill(shape, <<Quarter, FromInt(-1)>>)}

ShapeOf(a) == <<Rows(a), Cols(a)>>

(***************************************************************************)
(* The state: the object's two attributes, the arrays the caller holds,    *)
(* the last call with its arguments on entry and what it returned, the     *)
(* compute_delta call that made the array the caller holds in delta_arr,   *)
(* and what the caller gave the object.                                    *)
(***************************************************************************)
VARIABLES grad_clip_threshold, penalty_arr, pred_arr, labeled_arr, delta_arr,
          call, made, given

vars == <<grad_clip_threshold, penalty_arr, pred_arr, labeled_arr, delta_arr,
          call, made, given>>

Self == [threshold |-> grad_clip_threshold, penalty |-> penalty_arr]

NoCall ==
    [op |-> "none", arg |-> 0,
     entry |-> [self |-> [threshold |-> Zero, penalty |-> None],
                pred_arr |-> None, labeled_arr |-> None, delta_arr |-> None],
     r |-> [raw |-> None, v |-> Zero, clip |-> None, out |-> None, ret |-> None,
            self |-> [threshold |-> Zero, penalty |-> None],
            pred_arr |-> None, labeled_arr |-> None, delta_arr |-> None]]

\* __init__(grad_clip_threshold), and the caller's first arrays.
Init ==
    \E t \in Thresholds, shape \in Shapes :
        /\ grad_clip_threshold = t
        /\ penalty_arr = None
        /\ pred_arr \in PredArrays(shape)
        /\ labeled_arr \in LabeledArrays(shape)
        /\ delta_arr = None
        /\ call = NoCall
        /\ made = NoCall
        /\ given = [threshold |-> t, penalty |-> None]

\* A round of calls is over: the caller takes the next predicted and labeled
\* arrays, of the same shape, and drops the delta array it held.
SetInputs ==
    /\ call.op = "reverse_delta"
    /\ pred_arr' \in PredArrays(ShapeOf(pred_arr))
    /\ labeled_arr' \in LabeledArrays(ShapeOf(pred_arr))
    /\ delta_arr' = None
    /\ call' = NoCall
    /\ made' = NoCall
    /\ UNCHANGED <<grad_clip_threshold, penalty_arr, given>>

\* The caller assigns loss.penalty_arr, before a round of calls.
SetPenalty ==
    /\ call.op = "none"
    /\ \E p \in PenaltyArrays(ShapeOf(pred_arr)) :
        /\ penalty_arr' = p
        /\ given' = [given EXCEPT !.penalty = p]
        /\ UNCHANGED <<grad_clip_threshold, pred_arr, labeled_arr, delta_arr,
                       call, made>>

ComputeLoss ==
    \E axis \in Axes :
        \E r \in {compute_loss(Self, pred_arr, labeled_arr, axis)} :
            /\ call' = [op |-> "compute_loss", arg |-> axis,
                        entry |-> [self |-> Self, pred_arr |-> pred_arr,
                                   labeled_arr |-> labeled_arr,
                                   delta_arr |-> None],
                        r |-> r]
            /\ grad_clip_threshold' = r.self.threshold
            /\ penalty_arr' = r.self.penalty
            /\ pred_arr' = r.pred_arr
            /\ labeled_arr' = r.labeled_arr
            /\ UNCHANGED <<delta_arr, made, given>>

\* The caller keeps the returned array in delta_arr.
ComputeDelta ==
    \E delta_output \in DeltaOutputs :
        \E r \in {compute_delta(Self, pred_arr, labeled_arr, delta_output)} :
            /\ call' = [op |-> "compute_delta", arg |-> delta_output,
                        entry |-> [self |-> Self, pred_arr |-> pred_arr,
                                   labeled_arr |-> labeled_arr,
                                   delta_arr |-> None],
                        r |-> r]
            /\ made' = call'
            /\ delta_arr' = r.ret
            /\ grad_clip_threshold' = r.self.threshold
            /\ penalty_arr' = r.self.penalty
            /\ pred_arr' = r.pred_arr
            /\ labeled_arr' = r.labeled_arr
            /\ UNCHANGED given

\* The caller passes the array compute_delta returned, and the labeled array.
ReverseDelta ==
    /\ delta_arr # None
    /\ \E delta_output \in DeltaOutputs :
        \E r \in {reverse_delta(Self, delta_arr, labeled_arr, delta_output)} :
            /\ call' = [op |-> "reverse_delta", arg |-> delta_output,
                        entry |-> [self |-> Self, pred_arr |-> None,
                                   labeled_arr |-> labeled_arr,
                                   delta_arr |-> delta_arr],
                        r |-> r]
            /\ grad_clip_threshold' = r.self.threshold
            /\ penalty_arr' = r.self.penalty
            /\ labeled_arr' = r.labeled_arr
            /\ delta_arr' = r.delta_arr
            /\ UNCHANGED <<pred_arr, made, given>>

Next == SetInputs \/ SetPenalty \/ ComputeLoss \/ ComputeDelta \/ ReverseDelta

Spec == Init /\ [][Next]_vars

(***************************************************************************)
(* What the properties speak of.                                           *)
(***************************************************************************)
IsLoss == call.op = "compute_loss"

IsDelta == call.op = "compute_delta"

IsReverse == call.op = "reverse_delta"

\* The object's attributes when the last call was entered.
Thr == call.entry.self.threshold

Pen == call.entry.self.penalty

Positive(x) == ~IsNaN(x) /\ x[1] > 0

NonNegative(x) == ~IsNaN(x) /\ x[1] >= 0

AllZero(s) == \A n \in 1..Len(s) : s[n] = Zero

Cells(a) == (1..Rows(a)) \X (1..Cols(a))

Size(a) == Rows(a) * Cols(a)

\* The norm-based rescale as specified: every element times threshold / v
\* when the norm v of the array exceeds the threshold, the array otherwise.
Rescaled(arr, threshold) ==
    LET v == Norm(arr)
    IN  [i \in 1..Rows(arr) |-> [j \in 1..Cols(arr) |->
            IF FGt(v, threshold)
            THEN FDiv(FMul(arr[i][j], threshold), v)
            ELSE arr[i][j]]]

\* No element of b has another sign than the element of a in its place.
SameDirection(a, b) ==
    \A c \in Cells(a) :
        /\ ~IsNaN(b[c[1]][c[2]])
        /\ Sign(b[c[1]][c[2]][1]) = Sign(a[c[1]][c[2]][1])

\* |x - t| <= k * 2^-MantBits * |t|, in exact arithmetic.
WithinTol(x, t, k) ==
    /\ ~IsNaN(x)
    /\ ~IsNaN(t)
    /\ LET e == Min(x[2], t[2])
           X == x[1] * Pow2(x[2] - e)
           T == t[1] * Pow2(t[2] - e)
       IN  Abs(X - T) * Pow2(MantBits) <= k * Abs(T)

\* x <= t * (1 + k * 2^-MantBits), in exact arithmetic, for t >= 0.
AtMostTol(x, t, k) ==
    /\ ~IsNaN(x)
    /\ ~IsNaN(t)
    /\ LET e == Min(x[2], t[2])
           X == x[1] * Pow2(x[2] - e)
           T == t[1] * Pow2(t[2] - e)
       IN  (X - T) * Pow2(MantBits) <= k * T

\* |r - (l + d*d*(p - l))| <= 8 * 2^-MantBits * (d*d*|p - l| + |l|), in exact
\* arithmetic.
NearRoundTrip(r, l, p, d) ==
    /\ ~IsNaN(r)
    /\ LET e == Min(r[2], Min(l[2], p[2]))
           R == r[1] * Pow2(r[2] - e)
           L == l[1] * Pow2(l[2] - e)
           P == p[1] * Pow2(p[2] - e)
       IN  Abs(R - (L + d * d * (P - L))) * Pow2(MantBits)
               <= 8 * (d * d * Abs(P - L) + Abs(L))

\* reverse_delta was passed the array compute_delta returned, and the labeled
\* array compute_delta was passed.
RoundTrip ==
    /\ IsReverse
    /\ made.op = "compute_delta"
    /\ call.entry.delta_arr = made.r.ret
    /\ call.entry.labeled_arr = made.entry.labeled_arr

(***************************************************************************)
(* C1                                                                      *)
(***************************************************************************)

\* C1 as stated: whenever pred_arr equals labeled_arr element-wise,
\* compute_loss returns exactly zero, for every clip threshold, every axis and
\* in every state of the loss object.
C1_ZeroLossInEveryState ==
    (IsLoss /\ call.entry.pred_arr = call.entry.labeled_arr)
        => AllZero(call.r.ret)

\* C1 amended: whenever pred_arr equals labeled_arr element-wise, penalty_arr
\* is None and the clip threshold is not negative, compute_loss returns exactly
\* zero, for every axis.
C1_ZeroLoss ==
    (/\ IsLoss
     /\ call.entry.pred_arr = call.entry.labeled_arr
     /\ Pen = None
     /\ NonNegative(Thr))
        => AllZero(call.r.ret)

C1_Witness ==
    /\ IsLoss
    /\ call.entry.pred_arr = call.entry.labeled_arr
    /\ Pen = None
    /\ Thr = Zero
    /\ call.arg = 0
    /\ Cols(call.entry.pred_arr) = 2
    /\ AllZero(call.r.ret)

(***************************************************************************)
(* C2                                                                      *)
(***************************************************************************)

\* C2: compute_loss and compute_delta clip alike: each leaves its raw array
\* with every element times threshold / v when the norm v of the raw array is
\* greater than the threshold, and unchanged otherwise, also when v equals the
\* threshold; on the same raw array the two clipping steps give the same array.
C2_SameClipping ==
    (IsLoss \/ IsDelta) =>
        /\ call.r.v = Norm(call.r.raw)
        /\ call.r.clip = Rescaled(call.r.raw, Thr)
        /\ LossClip(call.r.raw, Thr) = DeltaClip(call.r.raw, Thr)
        /\ (~FGt(call.r.v, Thr) => call.r.clip = call.r.raw)

C2_Witness ==
    /\ IsDelta
    /\ Positive(Thr)
    /\ call.r.v = Thr
    /\ call.r.clip = call.r.raw

(***************************************************************************)
(* C3                                                                      *)
(***************************************************************************)

\* C3 as stated: for every threshold, when the norm of the raw array is
\* greater than the threshold, the clipped array has norm exactly the threshold
\* and no element has changed sign.
C3_NormExactlyThreshold ==
    ((IsLoss \/ IsDelta) /\ FGt(call.r.v, Thr)) =>
        /\ Norm(call.r.clip) = Thr
        /\ SameDirection(call.r.raw, call.r.clip)

\* C3 amended: for every positive threshold, when the norm v of the raw array
\* is greater than the threshold, every element of the clipped array is the raw
\* element times the threshold, divided by v, no element has changed sign, and
\* the norm of the clipped array is the threshold up to rounding: within
\* (2n + 6) * 2^-MantBits of it, relatively, for an array of n elements.
C3_NormNearThreshold ==
    ((IsLoss \/ IsDelta) /\ FGt(call.r.v, Thr) /\ Positive(Thr)) =>
        /\ \A c \in Cells(call.r.raw) :
               call.r.clip[c[1]][c[2]] =
                   FDiv(FMul(call.r.raw[c[1]][c[2]], Thr), call.r.v)
        /\ SameDirection(call.r.raw, call.r.clip)
        /\ WithinTol(Norm(call.r.clip), Thr, 2 * Size(call.r.raw) + 6)

C3_Witness ==
    /\ IsDelta
    /\ Positive(Thr)
    /\ FGt(call.r.v, Thr)
    /\ \E c \in Cells(call.r.clip) : call.r.clip[c[1]][c[2]][1] < 0
    /\ \E c \in Cells(call.r.clip) : call.r.clip[c[1]][c[2]][1] > 0
    /\ Norm(call.r.clip) # Thr
    /\ WithinTol(Norm(call.r.clip), Thr, 2 * Size(call.r.raw) + 6)

(***************************************************************************)
(* C4                                                                      *)
(***************************************************************************)

\* C4 as stated: in every state, the array compute_delta returns and the array
\* whose squares compute_loss averages have norm at most the threshold.
C4_NormBoundedInEveryState ==
    (IsLoss \/ IsDelta) => ~FGt(Norm(call.r.out), Thr)

\* C4 amended: when penalty_arr is None and the threshold is not negative, the
\* array compute_delta returns and the array whose squares compute_loss
\* averages have norm at most the threshold up to rounding: at most
\* threshold * (1 + (2n + 6) * 2^-MantBits), for an array of n elements.
C4_NormBoundedWithoutPenalty ==
    ((IsLoss \/ IsDelta) /\ Pen = None /\ NonNegative(Thr)) =>
        AtMostTol(Norm(call.r.out), Thr, 2 * Size(call.r.out) + 6)

C4_Witness ==
    /\ IsLoss
    /\ Pen = None
    /\ Positive(Thr)
    /\ FGt(call.r.v, Thr)
    /\ Size(call.r.out) = 4
    /\ AtMostTol(Norm(call.r.out), Thr, 2 * Size(call.r.out) + 6)

(***************************************************************************)
(* C5                                                                      *)
(***************************************************************************)

\* C5: reverse_delta(compute_delta(pred, labeled), labeled), with delta_output
\* 1 in both, does not in general give pred back: with penalty_arr None and
\* a threshold that is not positive, it gives an array other than pred for
\* every pred that differs from labeled.
C5_RoundTripDiffers ==
    (/\ RoundTrip
     /\ call.arg = 1
     /\ made.arg = 1
     /\ made.entry.self.penalty = None
     /\ ~FGt(made.entry.self.threshold, Zero)
     /\ made.entry.pred_arr # made.entry.labeled_arr)
        => call.r.ret # made.entry.pred_arr

C5_Witness ==
    /\ RoundTrip
    /\ call.arg = 1
    /\ made.arg = 1
    /\ made.entry.self.penalty = None
    /\ Positive(made.entry.self.threshold)
    /\ FGt(made.r.v, made.entry.self.threshold)
    /\ call.r.ret # made.entry.pred_arr

(***************************************************************************)
(* C6                                                                      *)
(***************************************************************************)

\* C6: the methods change nothing: the threshold is the one given at
\* construction, penalty_arr is what the caller last assigned (None if
\* nothing), and after a call the arrays passed to it are as they were on
\* entry.
C6_Frame ==
    /\ grad_clip_threshold = given.threshold
    /\ penalty_arr = given.penalty
    /\ (call.op # "none" => Self = call.entry.self)
    /\ ((IsLoss \/ IsDelta) =>
            /\ pred_arr = call.entry.pred_arr
            /\ labeled_arr = call.entry.labeled_arr)
    /\ (IsReverse =>
            /\ labeled_arr = call.entry.labeled_arr
            /\ delta_arr = call.entry.delta_arr)

C6_Witness ==
    /\ IsReverse
    /\ penalty_arr # None
    /\ call.r.ret # call.entry.delta_arr
    /\ delta_arr = call.entry.delta_arr

(***************************************************************************)
(* C7                                                                      *)
(***************************************************************************)

\* C7: compute_delta returns an array of the shape of its inputs, each element
\* the rescaled (pred - labeled) / batch_size * delta_output, plus the element
\* of penalty_arr when penalty_arr is set: the penalty is added after the
\* rescale and is not rescaled.
C7_DeltaValue ==
    IsDelta =>
        LET p == call.entry.pred_arr
            l == call.entry.labeled_arr
            raw == [i \in 1..Rows(l) |-> [j \in 1..Cols(l) |->
                       FMul(FDiv(FSub(p[i][j], l[i][j]), FromInt(Rows(l))),
                            FromInt(call.arg))]]
            clipped == Rescaled(raw, Thr)
        IN  /\ ShapeOf(call.r.ret) = ShapeOf(p)
            /\ \A c \in Cells(p) :
                   call.r.ret[c[1]][c[2]] =
                       IF Pen = None THEN clipped[c[1]][c[2]]
                       ELSE FAdd(clipped[c[1]][c[2]], Pen[c[1]][c[2]])

C7_Witness ==
    /\ IsDelta
    /\ Pen # None
    /\ Positive(Thr)
    /\ FGt(call.r.v, Thr)
    /\ call.arg = 2
    /\ call.r.ret # call.r.clip

(***************************************************************************)
(* C8                                                                      *)
(***************************************************************************)

\* C8: compute_loss returns the mean, over the axis or over all elements, of
\* the squares of the rescaled (labeled - pred) / batch_size plus penalty_arr
\* when it is set; no value returned is negative.
C8_LossValue ==
    IsLoss =>
        LET p == call.entry.pred_arr
            l == call.entry.labeled_arr
            raw == [i \in 1..Rows(l) |-> [j \in 1..Cols(l) |->
                       FDiv(FSub(l[i][j], p[i][j]), FromInt(Rows(l)))]]
            clipped == Rescaled(raw, Thr)
            sq == [i \in 1..Rows(l) |-> [j \in 1..Cols(l) |->
                      LET x == IF Pen = None THEN clipped[i][j]
                               ELSE FAdd(clipped[i][j], Pen[i][j])
                      IN  FMul(x, x)]]
        IN  /\ call.r.ret = MeanAxis(sq, call.arg)
            /\ Len(call.r.ret) = (IF call.arg = AxisNone THEN 1
                                  ELSE IF call.arg = 0 THEN Cols(l)
                                  ELSE Rows(l))
            /\ \A n \in 1..Len(call.r.ret) :
                   IsNaN(call.r.ret[n]) \/ call.r.ret[n][1] >= 0

C8_Witness ==
    /\ IsLoss
    /\ Pen # None
    /\ Positive(Thr)
    /\ FGt(call.r.v, Thr)
    /\ call.arg = 0
    /\ ShapeOf(call.entry.pred_arr) = <<2, 2>>
    /\ Positive(call.r.ret[1])
    /\ call.r.ret[1] # call.r.ret[2]

(***************************************************************************)
(* C9                                                                      *)
(***************************************************************************)

C10_LossFromDelta ==
    (IsLoss /\ Pen = None) =>
        LET p == call.entry.pred_arr
            l == call.entry.labeled_arr
            d == compute_delta(call.entry.self, p, l, 1).ret
            neg == [i \in 1..Rows(d) |-> [j \in 1..Cols(d) |-> FNeg(d[i][j])]]
            sq == [i \in 1..Rows(d) |-> [j \in 1..Cols(d) |->
                      FMul(d[i][j], d[i][j])]]
        IN  /\ call.r.out = neg
            /\ call.r.ret = MeanAxis(sq, call.arg)
            /\ call.r.ret = compute_loss(call.entry.self, l, p, call.arg).ret

C10_Witness ==
    /\ IsLoss
    /\ Pen = None
    /\ Positive(Thr)
    /\ FGt(call.r.v, Thr)
    /\ call.entry.pred_arr # call.entry.labeled_arr
    /\ \E c \in Cells(call.r.out) : call.r.out[c[1]][c[2]][1] < 0
    /\ \E c \in Cells(call.r.out) : call.r.out[c[1]][c[2]][1] > 0

====
